---- MODULE Spec2Model ----
(***************************************************************************)
(* Model of sxm/http.py: the request handler SiriusHandler.do_GET built by *)
(* make_http_handler, run by several handler threads against one shared    *)
(* SiriusXMClient.                                                         *)
(*                                                                         *)
(* Strings and bytes are sequences: a path is a sequence of one-character  *)
(* strings, a playlist text a sequence of Unicode code points, a byte      *)
(* string a sequence of numbers 0..255.  A value returned by the client is *)
(* a record [kind, data]: kind "Content" (a str/bytes/bool value in data), *)
(* "None" (the client returned None) or "Raise" (the call raised).         *)
(***************************************************************************)
EXTENDS Integers, Sequences, FiniteSets, TLC

\* pc[h]           position of handler h inside do_GET
\* path[h]         self.path of the request of h
\* segment_path[h] the local segment_path
\* log[h]          client calls and returns of the current request of h
\* responses[h]    responses written by the current request of h
\* session         the client's session, owned by SiriusXMClient
\* served          requests accepted so far
\* counts          over all requests so far: first get_segment calls that
\*                 raised SegmentRetrievalException, reset_session calls
\*                 and authenticate calls made
VARIABLES pc, path, segment_path, log, responses, session, served, counts

vars == <<pc, path, segment_path, log, responses, session, served, counts>>

\* Handler instances that may run do_GET at the same time.  run_http_server
\* uses the sequential HTTPServer; make_http_handler is also offered to
\* servers that dispatch concurrently, which includes the sequential runs.
Handlers == {"h1", "h2"}

\* Total number of requests accepted in one behaviour.
MaxRequests == 3

-----------------------------------------------------------------------------
\* Request paths (all begin with "/").
PathPlaylist == <<"/", "c", "/", "A", ".", "m", "3", "u", "8">>
PathPlaylistEmptyId == <<"/", ".", "m", "3", "u", "8">>
PathSegment == <<"/", "a", "/", "1", ".", "a", "a", "c">>
PathSegmentBare == <<"/", ".", "a", "a", "c">>
PathKey == <<"/", "k", "e", "y", "/", "1">>
PathKeyNested == <<"/", "c", "/", "k", "e", "y", "/", "1">>
PathUnknown == <<"/", "f", ".", "i", "c", "o">>
PathRoot == <<"/">>

Paths == {PathPlaylist, PathPlaylistEmptyId, PathSegment, PathSegmentBare,
          PathKey, PathKeyNested, PathUnknown, PathRoot}

\* Playlist texts the client may return (code points): "", "A", "e-acute euro".
Texts == {<<>>, <<65>>, <<233, 8364>>}

\* Segment payloads the client may return (bytes).
Payloads == {<<>>, <<0>>, <<255, 1>>}

Content(d) == [kind |-> "Content", data |-> d]
None == [kind |-> "None", data |-> <<>>]
Raise == [kind |-> "Raise", data |-> <<>>]

\* The fixed key served on /key/1.
HLS_AES_KEY == <<208, 219, 28, 163>>

-----------------------------------------------------------------------------
\* str.endswith(suffix)
EndsWith(s, suffix) ==
    /\ Len(s) >= Len(suffix)
    /\ SubSeq(s, Len(s) - Len(suffix) + 1, Len(s)) = suffix

SufM3u8 == <<".", "m", "3", "u", "8">>
SufAac == <<".", "a", "a", "c">>
SufKey == <<"/", "k", "e", "y", "/", "1">>

\* Classify without the /key/1 branch.
Classify_no_key(p) ==
    IF EndsWith(p, SufM3u8) THEN "Playlist"
    ELSE IF EndsWith(p, SufAac) THEN "Segment"
    ELSE "Unknown"

\* The branch of the if/elif chain of do_GET taken for a path.
Classify(p) ==
    IF EndsWith(p, SufM3u8) THEN "Playlist"
    ELSE IF EndsWith(p, SufAac) THEN "Segment"
    ELSE IF EndsWith(p, SufKey) THEN "Key"
    ELSE "Unknown"

\* Index of the last "/" of s (0 when there is none).
LastSlash(s) ==
    IF \E i \in 1..Len(s) : s[i] = "/"
    THEN CHOOSE i \in 1..Len(s) :
            s[i] = "/" /\ \A j \in (i+1)..Len(s) : s[j] # "/"
    ELSE 0

\* ChannelId splitting at the first "/" instead of the last.
ChannelId_first_slash(p) == SubSeq(p, 2, Len(p) - 5)

\* self.path.rsplit('/', 1)[1][:-5]
ChannelId(p) ==
    LET last == SubSeq(p, LastSlash(p) + 1, Len(p))
    IN  SubSeq(last, 1, Len(last) - 5)

\* SegmentPath keeping only the part after the last "/".
SegmentPath_basename(p) == SubSeq(p, LastSlash(p) + 1, Len(p))

\* self.path[1:]
SegmentPath(p) == SubSeq(p, 2, Len(p))

\* UTF-8 encoding of one code point.
Utf8Char(c) ==
    IF c < 128 THEN <<c>>
    ELSE IF c < 2048 THEN <<192 + (c \div 64), 128 + (c % 64)>>
    ELSE IF c < 65536
         THEN <<224 + (c \div 4096), 128 + ((c \div 64) % 64), 128 + (c % 64)>>
    ELSE <<240 + (c \div 262144), 128 + ((c \div 4096) % 64),
           128 + ((c \div 64) % 64), 128 + (c % 64)>>

RECURSIVE Utf8(_)
\* bytes(data, 'utf-8')
Utf8(t) == IF t = <<>> THEN <<>> ELSE Utf8Char(Head(t)) \o Utf8(Tail(t))

\* Python truthiness of a returned value: None and empty str/bytes are falsy.
Truthy(r) == r.kind = "Content" /\ r.data # <<>>

\* send_response(status); [send_header('Content-Type', ctype);] end_headers();
\* [wfile.write(body)]
Response(status, ctype, body) ==
    [status |-> status, ctype |-> ctype, body |-> body]

CallEv(op, arg) == [ev |-> "call", op |-> op, val |-> arg]
RetEv(op, r) == [ev |-> "ret", op |-> op, val |-> r]

-----------------------------------------------------------------------------
Init ==
    /\ pc = [h \in Handlers |-> "idle"]
    /\ path = [h \in Handlers |-> <<>>]
    /\ segment_path = [h \in Handlers |-> <<>>]
    /\ log = [h \in Handlers |-> <<>>]
    /\ responses = [h \in Handlers |-> <<>>]
    /\ session = "initial"
    /\ served = 0
    /\ counts = [expired |-> 0, reset_session |-> 0, authenticate |-> 0]

\* A handler thread that is not inside do_GET.
Free(h) == pc[h] \in {"idle", "done", "fault"}

\* do_GET whose Key branch re-authenticates before serving the key.
do_GET_key_authenticates(h, p) ==
    /\ Free(h)
    /\ served < MaxRequests
    /\ served' = served + 1
    /\ path' = [path EXCEPT ![h] = p]
    /\ session' = session
    /\ counts' = IF Classify(p) = "Key"
                 THEN [counts EXCEPT !.authenticate = @ + 1]
                 ELSE counts
    /\ CASE Classify(p) = "Playlist" ->
              /\ pc' = [pc EXCEPT ![h] = "get_playlist"]
              /\ segment_path' = [segment_path EXCEPT ![h] = <<>>]
              /\ log' = [log EXCEPT ![h] = <<CallEv("get_playlist", ChannelId(p))>>]
              /\ responses' = [responses EXCEPT ![h] = <<>>]
         [] Classify(p) = "Segment" ->
              /\ pc' = [pc EXCEPT ![h] = "get_segment_1"]
              /\ segment_path' = [segment_path EXCEPT ![h] = SegmentPath(p)]
              /\ log' = [log EXCEPT ![h] = <<CallEv("get_segment", SegmentPath(p))>>]
              /\ responses' = [responses EXCEPT ![h] = <<>>]
         [] Classify(p) = "Key" ->
              /\ pc' = [pc EXCEPT ![h] = "authenticate"]
              /\ segment_path' = [segment_path EXCEPT ![h] = <<>>]
              /\ log' = [log EXCEPT ![h] = <<CallEv("authenticate", <<>>)>>]
              /\ responses' = [responses EXCEPT ![h] = <<>>]
         [] OTHER ->
              /\ pc' = [pc EXCEPT ![h] = "done"]
              /\ segment_path' = [segment_path EXCEPT ![h] = <<>>]
              /\ log' = [log EXCEPT ![h] = <<>>]
              /\ responses' = [responses EXCEPT ![h] =
                                 <<Response(404, "none", <<>>)>>]

\* do_GET answering an unrecognised path like an unavailable resource.
do_GET_unknown_unavailable(h, p) ==
    /\ Free(h)
    /\ served < MaxRequests
    /\ served' = served + 1
    /\ path' = [path EXCEPT ![h] = p]
    /\ session' = session
    /\ counts' = counts
    /\ CASE Classify(p) = "Playlist" ->
              /\ pc' = [pc EXCEPT ![h] = "get_playlist"]
              /\ segment_path' = [segment_path EXCEPT ![h] = <<>>]
              /\ log' = [log EXCEPT ![h] = <<CallEv("get_playlist", ChannelId(p))>>]
              /\ responses' = [responses EXCEPT ![h] = <<>>]
         [] Classify(p) = "Segment" ->
              /\ pc' = [pc EXCEPT ![h] = "get_segment_1"]
              /\ segment_path' = [segment_path EXCEPT ![h] = SegmentPath(p)]
              /\ log' = [log EXCEPT ![h] = <<CallEv("get_segment", SegmentPath(p))>>]
              /\ responses' = [responses EXCEPT ![h] = <<>>]
         [] Classify(p) = "Key" ->
              /\ pc' = [pc EXCEPT ![h] = "done"]
              /\ segment_path' = [segment_path EXCEPT ![h] = <<>>]
              /\ log' = [log EXCEPT ![h] = <<>>]
              /\ responses' = [responses EXCEPT ![h] =
                                 <<Response(200, "text/plain", HLS_AES_KEY)>>]
         [] OTHER ->
              /\ pc' = [pc EXCEPT ![h] = "done"]
              /\ segment_path' = [segment_path EXCEPT ![h] = <<>>]
              /\ log' = [log EXCEPT ![h] = <<>>]
              /\ responses' = [responses EXCEPT ![h] =
                                 <<Response(503, "none", <<>>)>>]

\* do_GET entry: classify the path; Key and Unknown answer at once, Playlist
\* and Segment issue their first client call.
do_GET(h, p) ==
    /\ Free(h)
    /\ served < MaxRequests
    /\ served' = served + 1
    /\ path' = [path EXCEPT ![h] = p]
    /\ session' = session
    /\ counts' = counts
    /\ CASE Classify(p) = "Playlist" ->
              /\ pc' = [pc EXCEPT ![h] = "get_playlist"]
              /\ segment_path' = [segment_path EXCEPT ![h] = <<>>]
              /\ log' = [log EXCEPT ![h] = <<CallEv("get_playlist", ChannelId(p))>>]
              /\ responses' = [responses EXCEPT ![h] = <<>>]
         [] Classify(p) = "Segment" ->
              /\ pc' = [pc EXCEPT ![h] = "get_segment_1"]
              /\ segment_path' = [segment_path EXCEPT ![h] = SegmentPath(p)]
              /\ log' = [log EXCEPT ![h] = <<CallEv("get_segment", SegmentPath(p))>>]
              /\ responses' = [responses EXCEPT ![h] = <<>>]
         [] Classify(p) = "Key" ->
              /\ pc' = [pc EXCEPT ![h] = "done"]
              /\ segment_path' = [segment_path EXCEPT ![h] = <<>>]
              /\ log' = [log EXCEPT ![h] = <<>>]
              /\ responses' = [responses EXCEPT ![h] =
                                 <<Response(200, "text/plain", HLS_AES_KEY)>>]
         [] OTHER ->
              /\ pc' = [pc EXCEPT ![h] = "done"]
              /\ segment_path' = [segment_path EXCEPT ![h] = <<>>]
              /\ log' = [log EXCEPT ![h] = <<>>]
              /\ responses' = [responses EXCEPT ![h] =
                                 <<Response(404, "none", <<>>)>>]

\* get_playlist_return that starts session recovery on an unavailable playlist.
get_playlist_return_recovers(h, r) ==
    /\ pc[h] = "get_playlist"
    /\ IF r.kind = "None"
       THEN /\ pc' = [pc EXCEPT ![h] = "reset_session"]
            /\ log' = [log EXCEPT ![h] =
                  @ \o <<RetEv("get_playlist", r), CallEv("reset_session", <<>>)>>]
            /\ UNCHANGED responses
            /\ counts' = [counts EXCEPT !.reset_session = @ + 1]
       ELSE /\ pc' = [pc EXCEPT ![h] = "done"]
            /\ log' = [log EXCEPT ![h] = Append(@, RetEv("get_playlist", r))]
            /\ responses' = [responses EXCEPT ![h] =
                  IF Truthy(r)
                  THEN <<Response(200, "application/x-mpegURL", Utf8(r.data))>>
                  ELSE <<Response(503, "none", <<>>)>>]
            /\ UNCHANGED counts
    /\ UNCHANGED <<path, segment_path, session, served>>

\* sxm.get_playlist(...) returns r; the handler answers.
get_playlist_return(h, r) ==
    /\ pc[h] = "get_playlist"
    /\ pc' = [pc EXCEPT ![h] = "done"]
    /\ log' = [log EXCEPT ![h] = Append(@, RetEv("get_playlist", r))]
    /\ responses' = [responses EXCEPT ![h] =
          IF Truthy(r)
          THEN <<Response(200, "application/x-mpegURL", Utf8(r.data))>>
          ELSE <<Response(503, "none", <<>>)>>]
    /\ UNCHANGED <<path, segment_path, session, served, counts>>

\* The answer of the Segment branch for the value held in data.
SegmentResponse(r) ==
    IF Truthy(r)
    THEN <<Response(200, "audio/x-aac", r.data)>>
    ELSE <<Response(503, "none", <<>>)>>

\* get_segment_return_1 that also recovers when the segment is unavailable.
get_segment_return_1_recovers_on_none(h, r) ==
    /\ pc[h] = "get_segment_1"
    /\ IF r.kind \in {"Raise", "None"}
       THEN /\ pc' = [pc EXCEPT ![h] = "reset_session"]
            /\ log' = [log EXCEPT ![h] =
                  @ \o <<RetEv("get_segment", r), CallEv("reset_session", <<>>)>>]
            /\ UNCHANGED responses
            /\ counts' = [counts EXCEPT !.expired = @ + (IF r.kind = "Raise" THEN 1 ELSE 0),
                                        !.reset_session = @ + 1]
       ELSE /\ pc' = [pc EXCEPT ![h] = "done"]
            /\ log' = [log EXCEPT ![h] = Append(@, RetEv("get_segment", r))]
            /\ responses' = [responses EXCEPT ![h] = SegmentResponse(r)]
            /\ UNCHANGED counts
    /\ UNCHANGED <<path, segment_path, session, served>>

\* get_segment_return_1 that starts reset_session and, without waiting for it
\* to return, calls authenticate.
get_segment_return_1_reset_not_awaited(h, r) ==
    /\ pc[h] = "get_segment_1"
    /\ IF r.kind = "Raise"
       THEN /\ pc' = [pc EXCEPT ![h] = "authenticate"]
            /\ log' = [log EXCEPT ![h] =
                  @ \o <<RetEv("get_segment", r), CallEv("reset_session", <<>>),
                         CallEv("authenticate", <<>>)>>]
            /\ UNCHANGED responses
            /\ counts' = [counts EXCEPT !.expired = @ + 1,
                                        !.reset_session = @ + 1,
                                        !.authenticate = @ + 1]
       ELSE /\ pc' = [pc EXCEPT ![h] = "done"]
            /\ log' = [log EXCEPT ![h] = Append(@, RetEv("get_segment", r))]
            /\ responses' = [responses EXCEPT ![h] = SegmentResponse(r)]
            /\ UNCHANGED counts
    /\ UNCHANGED <<path, segment_path, session, served>>

\* get_segment_return_1 that recovers only while no request has reset the
\* session before, and otherwise answers 503 at once.
get_segment_return_1_recovers_once(h, r) ==
    /\ pc[h] = "get_segment_1"
    /\ IF r.kind = "Raise" /\ session = "initial"
       THEN /\ pc' = [pc EXCEPT ![h] = "reset_session"]
            /\ log' = [log EXCEPT ![h] =
                  @ \o <<RetEv("get_segment", r), CallEv("reset_session", <<>>)>>]
            /\ UNCHANGED responses
            /\ counts' = [counts EXCEPT !.expired = @ + 1,
                                        !.reset_session = @ + 1]
       ELSE /\ pc' = [pc EXCEPT ![h] = "done"]
            /\ log' = [log EXCEPT ![h] = Append(@, RetEv("get_segment", r))]
            /\ responses' = [responses EXCEPT ![h] = SegmentResponse(r)]
            /\ counts' = [counts EXCEPT !.expired =
                             @ + (IF r.kind = "Raise" THEN 1 ELSE 0)]
    /\ UNCHANGED <<path, segment_path, session, served>>

\* get_segment_return_1 that skips its own reset_session and authenticate
\* while another request is recovering the session, and retries at once.
get_segment_return_1_joins_recovery(h, r) ==
    /\ pc[h] = "get_segment_1"
    /\ IF r.kind = "Raise"
       THEN IF \E g \in Handlers \ {h} : pc[g] \in {"reset_session", "authenticate"}
            THEN /\ pc' = [pc EXCEPT ![h] = "get_segment_2"]
                 /\ log' = [log EXCEPT ![h] =
                       @ \o <<RetEv("get_segment", r),
                              CallEv("get_segment", segment_path[h])>>]
                 /\ UNCHANGED responses
                 /\ counts' = [counts EXCEPT !.expired = @ + 1]
            ELSE /\ pc' = [pc EXCEPT ![h] = "reset_session"]
                 /\ log' = [log EXCEPT ![h] =
                       @ \o <<RetEv("get_segment", r),
                              CallEv("reset_session", <<>>)>>]
                 /\ UNCHANGED responses
                 /\ counts' = [counts EXCEPT !.expired = @ + 1,
                                             !.reset_session = @ + 1]
       ELSE /\ pc' = [pc EXCEPT ![h] = "done"]
            /\ log' = [log EXCEPT ![h] = Append(@, RetEv("get_segment", r))]
            /\ responses' = [responses EXCEPT ![h] = SegmentResponse(r)]
            /\ UNCHANGED counts
    /\ UNCHANGED <<path, segment_path, session, served>>

\* First sxm.get_segment(segment_path) returns r or raises
\* SegmentRetrievalException; on the exception reset_session() is called.
get_segment_return_1(h, r) ==
    /\ pc[h] = "get_segment_1"
    /\ IF r.kind = "Raise"
       THEN /\ pc' = [pc EXCEPT ![h] = "reset_session"]
            /\ log' = [log EXCEPT ![h] =
                  @ \o <<RetEv("get_segment", r), CallEv("reset_session", <<>>)>>]
            /\ UNCHANGED responses
            /\ counts' = [counts EXCEPT !.expired = @ + 1,
                                        !.reset_session = @ + 1]
       ELSE /\ pc' = [pc EXCEPT ![h] = "done"]
            /\ log' = [log EXCEPT ![h] = Append(@, RetEv("get_segment", r))]
            /\ responses' = [responses EXCEPT ![h] = SegmentResponse(r)]
            /\ UNCHANGED counts
    /\ UNCHANGED <<path, segment_path, session, served>>

\* reset_session_return that calls reset_session a second time when the
\* first call raises.
reset_session_return_retries(h, r) ==
    /\ pc[h] = "reset_session"
    /\ IF r.kind = "Raise"
       THEN IF Len(log[h]) < 5
            THEN /\ pc' = pc
                 /\ log' = [log EXCEPT ![h] =
                       @ \o <<RetEv("reset_session", r),
                              CallEv("reset_session", <<>>)>>]
                 /\ counts' = [counts EXCEPT !.reset_session = @ + 1]
                 /\ UNCHANGED session
            ELSE /\ pc' = [pc EXCEPT ![h] = "fault"]
                 /\ log' = [log EXCEPT ![h] = Append(@, RetEv("reset_session", r))]
                 /\ UNCHANGED <<session, counts>>
       ELSE /\ pc' = [pc EXCEPT ![h] = "authenticate"]
            /\ log' = [log EXCEPT ![h] =
                  @ \o <<RetEv("reset_session", r), CallEv("authenticate", <<>>)>>]
            /\ session' = "reset"
            /\ counts' = [counts EXCEPT !.authenticate = @ + 1]
    /\ UNCHANGED <<path, segment_path, responses, served>>

\* sxm.reset_session() returns (then authenticate() is called) or raises
\* (the exception leaves do_GET).
reset_session_return(h, r) ==
    /\ pc[h] = "reset_session"
    /\ IF r.kind = "Raise"
       THEN /\ pc' = [pc EXCEPT ![h] = "fault"]
            /\ log' = [log EXCEPT ![h] = Append(@, RetEv("reset_session", r))]
            /\ UNCHANGED <<session, counts>>
       ELSE /\ pc' = [pc EXCEPT ![h] = "authenticate"]
            /\ log' = [log EXCEPT ![h] =
                  @ \o <<RetEv("reset_session", r), CallEv("authenticate", <<>>)>>]
            /\ session' = "reset"
            /\ counts' = [counts EXCEPT !.authenticate = @ + 1]
    /\ UNCHANGED <<path, segment_path, responses, served>>

\* authenticate_return that answers 503 without retrying when authenticate
\* returns False.
authenticate_return_checks_login(h, r) ==
    /\ pc[h] = "authenticate"
    /\ IF r.kind = "Raise"
       THEN /\ pc' = [pc EXCEPT ![h] = "fault"]
            /\ log' = [log EXCEPT ![h] = Append(@, RetEv("authenticate", r))]
            /\ UNCHANGED <<session, responses>>
       ELSE IF r.data
            THEN /\ pc' = [pc EXCEPT ![h] = "get_segment_2"]
                 /\ log' = [log EXCEPT ![h] =
                       @ \o <<RetEv("authenticate", r),
                              CallEv("get_segment", segment_path[h])>>]
                 /\ session' = "authenticated"
                 /\ UNCHANGED responses
            ELSE /\ pc' = [pc EXCEPT ![h] = "done"]
                 /\ log' = [log EXCEPT ![h] = Append(@, RetEv("authenticate", r))]
                 /\ responses' = [responses EXCEPT ![h] =
                                    <<Response(503, "none", <<>>)>>]
                 /\ UNCHANGED session
    /\ UNCHANGED <<path, segment_path, served, counts>>

\* sxm.authenticate() returns True or False (then the retry get_segment is
\* called) or raises (the exception leaves do_GET).
authenticate_return(h, r) ==
    /\ pc[h] = "authenticate"
    /\ IF r.kind = "Raise"
       THEN /\ pc' = [pc EXCEPT ![h] = "fault"]
            /\ log' = [log EXCEPT ![h] = Append(@, RetEv("authenticate", r))]
            /\ UNCHANGED session
       ELSE /\ pc' = [pc EXCEPT ![h] = "get_segment_2"]
            /\ log' = [log EXCEPT ![h] =
                  @ \o <<RetEv("authenticate", r),
                         CallEv("get_segment", segment_path[h])>>]
            /\ session' = IF r.data THEN "authenticated" ELSE session
    /\ UNCHANGED <<path, segment_path, responses, served, counts>>

\* get_segment_return_2 that fetches once more when the retry expires too.
get_segment_return_2_retries(h, r) ==
    /\ pc[h] = "get_segment_2"
    /\ IF r.kind = "Raise"
       THEN IF Len(log[h]) < 9
            THEN /\ pc' = pc
                 /\ log' = [log EXCEPT ![h] =
                       @ \o <<RetEv("get_segment", r),
                              CallEv("get_segment", segment_path[h])>>]
                 /\ UNCHANGED responses
            ELSE /\ pc' = [pc EXCEPT ![h] = "fault"]
                 /\ log' = [log EXCEPT ![h] = Append(@, RetEv("get_segment", r))]
                 /\ UNCHANGED responses
       ELSE /\ pc' = [pc EXCEPT ![h] = "done"]
            /\ log' = [log EXCEPT ![h] = Append(@, RetEv("get_segment", r))]
            /\ responses' = [responses EXCEPT ![h] = SegmentResponse(r)]
    /\ UNCHANGED <<path, segment_path, session, served, counts>>

\* The retry sxm.get_segment(segment_path) returns r, or raises
\* SegmentRetrievalException outside the try block.
get_segment_return_2(h, r) ==
    /\ pc[h] = "get_segment_2"
    /\ log' = [log EXCEPT ![h] = Append(@, RetEv("get_segment", r))]
    /\ IF r.kind = "Raise"
       THEN /\ pc' = [pc EXCEPT ![h] = "fault"]
            /\ UNCHANGED responses
       ELSE /\ pc' = [pc EXCEPT ![h] = "done"]
            /\ responses' = [responses EXCEPT ![h] = SegmentResponse(r)]
    /\ UNCHANGED <<path, segment_path, session, served, counts>>

\* Values the client operations may produce.
PlaylistResults == {Content(t) : t \in Texts} \cup {None}
SegmentResults == {Content(b) : b \in Payloads} \cup {None, Raise}
ResetResults == {None, Raise}
AuthResults == {Content(TRUE), Content(FALSE), Raise}

Next ==
    \/ \E h \in Handlers, p \in Paths : do_GET(h, p)
    \/ \E h \in Handlers, r \in PlaylistResults : get_playlist_return(h, r)
    \/ \E h \in Handlers, r \in SegmentResults : get_segment_return_1(h, r)
    \/ \E h \in Handlers, r \in ResetResults : reset_session_return(h, r)
    \/ \E h \in Handlers, r \in AuthResults : authenticate_return(h, r)
    \/ \E h \in Handlers, r \in SegmentResults : get_segment_return_2(h, r)

Spec == Init /\ [][Next]_vars

\* Every client call, once made, returns or raises.
FairSpec ==
    /\ Spec
    /\ \A h \in Handlers :
          /\ WF_vars(\E r \in PlaylistResults : get_playlist_return(h, r))
          /\ WF_vars(\E r \in SegmentResults : get_segment_return_1(h, r))
          /\ WF_vars(\E r \in ResetResults : reset_session_return(h, r))
          /\ WF_vars(\E r \in AuthResults : authenticate_return(h, r))
          /\ WF_vars(\E r \in SegmentResults : get_segment_return_2(h, r))

-----------------------------------------------------------------------------
\* Observations on the per-request log.

\* do_GET has been left: by a response ("done") or by an exception ("fault").
Terminal(h) == pc[h] \in {"done", "fault"}

\* The client calls made so far by the request of h, in order.
Calls(h) == SelectSeq(log[h], LAMBDA e : e.ev = "call")

\* The operations called so far by the request of h, in order.
RECURSIVE OpsOf(_)
OpsOf(s) == IF s = <<>> THEN <<>> ELSE <<Head(s).op>> \o OpsOf(Tail(s))
Ops(h) == OpsOf(Calls(h))

\* Number of calls of op made so far by the request of h.
NCalls(h, op) == Len(SelectSeq(log[h], LAMBDA e : e.ev = "call" /\ e.op = op))

\* The outcomes of the calls of op that have returned, in order.
RECURSIVE ValsOf(_)
ValsOf(s) == IF s = <<>> THEN <<>> ELSE <<Head(s).val>> \o ValsOf(Tail(s))
Rets(h, op) ==
    ValsOf(SelectSeq(log[h], LAMBDA e : e.ev = "ret" /\ e.op = op))

IsSegment(h) == Classify(path[h]) = "Segment"
IsPlaylist(h) == Classify(path[h]) = "Playlist"
IsKey(h) == Classify(path[h]) = "Key"

\* First get_segment raised SegmentRetrievalException.
Expired1(h) ==
    /\ IsSegment(h)
    /\ Len(Rets(h, "get_segment")) >= 1
    /\ Rets(h, "get_segment")[1].kind = "Raise"

-----------------------------------------------------------------------------
\* C1: a Segment request whose first get_segment raises
\* SegmentRetrievalException and whose retry returns content ends with 200
\* and the retried content, after exactly the calls get_segment,
\* reset_session, authenticate, get_segment, the two get_segment calls with
\* the same segment path.
C1_ExpiredThenContent ==
    \A h \in Handlers :
       ( /\ Terminal(h)
         /\ Expired1(h)
         /\ Len(Rets(h, "get_segment")) = 2
         /\ Rets(h, "get_segment")[2].kind = "Content" )
       => /\ responses[h] =
               <<Response(200, "audio/x-aac", Rets(h, "get_segment")[2].data)>>
          /\ Ops(h) = <<"get_segment", "reset_session", "authenticate",
                        "get_segment">>
          /\ Calls(h)[4].val = Calls(h)[1].val

\* C2: a Segment request whose two get_segment calls both signal session
\* expiry ends with a 503 without body, and get_segment is not called a
\* third time.
C2_ExpiredTwice ==
    \A h \in Handlers :
       ( /\ Terminal(h)
         /\ Expired1(h)
         /\ Len(Rets(h, "get_segment")) = 2
         /\ Rets(h, "get_segment")[2].kind = "Raise" )
       => /\ responses[h] = <<Response(503, "none", <<>>)>>
          /\ NCalls(h, "get_segment") = 2

\* reset_session or authenticate raised during the recovery of h.
RecoveryFailed(h) ==
    /\ Expired1(h)
    /\ \/ Rets(h, "reset_session") = <<Raise>>
       \/ Rets(h, "authenticate") = <<Raise>>

\* C3: when reset_session or authenticate fails during recovery, the request
\* is answered 503, the retry get_segment is never called and no call is
\* repeated.
C3_RecoveryFails ==
    \A h \in Handlers :
       (Terminal(h) /\ RecoveryFailed(h))
       => /\ responses[h] = <<Response(503, "none", <<>>)>>
          /\ NCalls(h, "get_segment") = 1
          /\ NCalls(h, "reset_session") = 1
          /\ NCalls(h, "authenticate") <= 1

\* C4: every request that has left do_GET has exactly one response, with
\* status 200, 404 or 503, and did not leave by an uncaught exception.
C4_AlwaysOneResponse ==
    \A h \in Handlers :
       Terminal(h)
       => /\ pc[h] = "done"
          /\ Len(responses[h]) = 1
          /\ responses[h][1].status \in {200, 404, 503}

\* C5: within one request get_segment is called at most twice,
\* reset_session and authenticate at most once each, and a request inside
\* do_GET eventually leaves it.
C5_CallBounds ==
    \A h \in Handlers :
       /\ NCalls(h, "get_segment") <= 2
       /\ NCalls(h, "reset_session") <= 1
       /\ NCalls(h, "authenticate") <= 1

C5_BoundedRetry ==
    /\ []C5_CallBounds
    /\ \A h \in Handlers : (~Free(h)) ~> Terminal(h)

\* A request that went through the whole recovery cycle and has ended.
C5_Witness ==
    \E h \in Handlers :
       /\ Terminal(h)
       /\ NCalls(h, "get_segment") = 2
       /\ NCalls(h, "reset_session") = 1
       /\ NCalls(h, "authenticate") = 1

\* C6: a Segment request whose first get_segment returns None (unavailable)
\* ends with a 503 without body after that single call, without
\* reset_session or authenticate.
C6_UnavailableFirst ==
    \A h \in Handlers :
       ( /\ IsSegment(h)
         /\ Len(Rets(h, "get_segment")) >= 1
         /\ Rets(h, "get_segment")[1] = None )
       => /\ pc[h] = "done"
          /\ responses[h] = <<Response(503, "none", <<>>)>>
          /\ Ops(h) = <<"get_segment">>

C6_Witness ==
    \E h \in Handlers :
       /\ IsSegment(h)
       /\ pc[h] = "done"
       /\ Rets(h, "get_segment") = <<None>>

\* C7: a Segment request whose first get_segment returns content, whatever
\* the payload (the empty one included), ends with 200, content type
\* audio/x-aac and that payload as body, after that single call.
C7_ContentFirst ==
    \A h \in Handlers :
       ( /\ IsSegment(h)
         /\ Len(Rets(h, "get_segment")) >= 1
         /\ Rets(h, "get_segment")[1].kind = "Content" )
       => /\ pc[h] = "done"
          /\ responses[h] =
               <<Response(200, "audio/x-aac", Rets(h, "get_segment")[1].data)>>
          /\ Ops(h) = <<"get_segment">>

\* C8: a Playlist request whose get_playlist returns None (unavailable) ends
\* with a 503 without body; get_playlist was called once and nothing else.
C8_PlaylistUnavailable ==
    \A h \in Handlers :
       (IsPlaylist(h) /\ Rets(h, "get_playlist") = <<None>>)
       => /\ pc[h] = "done"
          /\ responses[h] = <<Response(503, "none", <<>>)>>
          /\ Ops(h) = <<"get_playlist">>

C8_Witness ==
    \E h \in Handlers :
       /\ IsPlaylist(h)
       /\ pc[h] = "done"
       /\ Rets(h, "get_playlist") = <<None>>

\* C9: a Playlist request whose get_playlist returns a text, whatever the
\* text (the empty one included), ends with 200, content type
\* application/x-mpegURL and the UTF-8 encoding of the text as body.
C9_PlaylistContent ==
    \A h \in Handlers :
       ( /\ IsPlaylist(h)
         /\ Len(Rets(h, "get_playlist")) = 1
         /\ Rets(h, "get_playlist")[1].kind = "Content" )
       => /\ pc[h] = "done"
          /\ responses[h] =
               <<Response(200, "application/x-mpegURL",
                          Utf8(Rets(h, "get_playlist")[1].data))>>

\* C10: a do_GET step for a path ending in /key/1, from any state, answers
\* 200 text/plain with the fixed key, makes no client call and leaves the
\* session and the other handlers' requests as they were.
C10_KeyRequest ==
    [][ \A h \in Handlers, p \in Paths :
          (do_GET(h, p) /\ Classify(p) = "Key")
          => /\ pc'[h] = "done"
             /\ responses'[h] = <<Response(200, "text/plain", HLS_AES_KEY)>>
             /\ log'[h] = <<>>
             /\ session' = session
             /\ \A g \in Handlers \ {h} :
                   /\ pc'[g] = pc[g]
                   /\ log'[g] = log[g]
                   /\ responses'[g] = responses[g] ]_vars

\* A Key request answered after the session was reset by an earlier request
\* and while another request is in the middle of a client call.
C10_Witness ==
    \E h \in Handlers, g \in Handlers :
       /\ IsKey(h)
       /\ pc[h] = "done"
       /\ responses[h] = <<Response(200, "text/plain", HLS_AES_KEY)>>
       /\ session # "initial"
       /\ ~Free(g) /\ ~Terminal(g)

-----------------------------------------------------------------------------
\* The routing rules of the request router, in priority order.
Rules == << <<SufM3u8, "Playlist">>, <<SufAac, "Segment">>, <<SufKey, "Key">> >>

\* The class of the first rule whose suffix the path ends with.
FirstMatch(p) ==
    IF \E i \in 1..Len(Rules) : EndsWith(p, Rules[i][1])
    THEN Rules[CHOOSE i \in 1..Len(Rules) :
                  /\ EndsWith(p, Rules[i][1])
                  /\ \A j \in 1..(i - 1) : ~EndsWith(p, Rules[j][1])][2]
    ELSE "Unknown"

\* The branch of do_GET that ran for the current request of h, as seen from
\* its first client call or, without any call, from its response.
Branch(h) ==
    IF log[h] # <<>>
    THEN IF log[h][1].op = "get_playlist" THEN "Playlist"
         ELSE IF log[h][1].op = "get_segment" THEN "Segment"
         ELSE "Other"
    ELSE IF responses[h] = <<Response(200, "text/plain", HLS_AES_KEY)>>
         THEN "Key"
    ELSE IF responses[h] = <<Response(404, "none", <<>>)>> THEN "Unknown"
    ELSE "Other"

\* C11: a request whose path ends in none of .m3u8, .aac, /key/1 is answered
\* 404 with an empty body and makes no client call.
C11_UnknownPath ==
    \A h \in Handlers :
       ( /\ pc[h] # "idle"
         /\ ~EndsWith(path[h], SufM3u8)
         /\ ~EndsWith(path[h], SufAac)
         /\ ~EndsWith(path[h], SufKey) )
       => /\ pc[h] = "done"
          /\ responses[h] = <<Response(404, "none", <<>>)>>
          /\ log[h] = <<>>

C11_Witness ==
    \E h \in Handlers :
       /\ pc[h] = "done"
       /\ path[h] \in {PathUnknown, PathRoot}
       /\ responses[h] = <<Response(404, "none", <<>>)>>
       /\ counts.reset_session > 0

\* C12: the branch of do_GET that runs for a request is the class of the
\* first routing rule its path matches, Unknown when none matches.
C12_FirstMatchWins ==
    \A h \in Handlers : pc[h] # "idle" => Branch(h) = FirstMatch(path[h])

\* Requests of two different classes being handled at the same time.
C12_Witness ==
    \E h \in Handlers, g \in Handlers :
       /\ pc[h] # "idle" /\ Branch(h) = "Key"
       /\ pc[g] # "idle" /\ Branch(g) = "Segment"

\* C13: the channel identifier passed to get_playlist is what stands between
\* the final "/" of the path and its .m3u8 suffix.
C13_ChannelId ==
    \A h \in Handlers :
       (pc[h] # "idle" /\ EndsWith(path[h], SufM3u8))
       => /\ Len(Calls(h)) = 1
          /\ Calls(h)[1].op = "get_playlist"
          /\ LET id == Calls(h)[1].val
                 n == Len(path[h])
             IN  /\ n >= Len(id) + 6
                 /\ path[h][n - Len(id) - 5] = "/"
                 /\ \A i \in 1..Len(id) : id[i] # "/"
                 /\ SubSeq(path[h], n - Len(id) - 4, n) = id \o SufM3u8

\* /c/A.m3u8 asked get_playlist for channel A.
C13_Witness ==
    \E h \in Handlers :
       /\ path[h] = PathPlaylist
       /\ pc[h] = "done"
       /\ Calls(h) = <<CallEv("get_playlist", <<"A">>)>>

\* C14: every get_segment call of a request, the first and the retry, is
\* passed the request path without its leading "/".
C14_SegmentPath ==
    \A h \in Handlers :
       (pc[h] # "idle" /\ EndsWith(path[h], SufAac))
       => /\ NCalls(h, "get_segment") >= 1
          /\ \A i \in 1..Len(Calls(h)) :
                Calls(h)[i].op = "get_segment"
                => <<"/">> \o Calls(h)[i].val = path[h]

\* /a/1.aac fetched twice as a/1.aac.
C14_Witness ==
    \E h \in Handlers :
       /\ path[h] = PathSegment
       /\ NCalls(h, "get_segment") = 2
       /\ Calls(h)[4].val = <<"a", "/", "1", ".", "a", "a", "c">>

\* Event i of the log of h is the return, without exception, of op.
Returned(h, i, op) ==
    /\ i \in 1..Len(log[h])
    /\ log[h][i].ev = "ret"
    /\ log[h][i].op = op
    /\ log[h][i].val.kind # "Raise"

\* C15: within one request, whatever the other requests do, a client call
\* begins only after the previous one has returned; authenticate begins only
\* after reset_session has returned, and the retry get_segment only after
\* authenticate has returned.
C15_RecoverySequential ==
    \A h \in Handlers :
       \A i \in 1..Len(log[h]) :
          /\ (i % 2 = 1) => log[h][i].ev = "call"
          /\ (i % 2 = 0) => /\ log[h][i].ev = "ret"
                            /\ log[h][i].op = log[h][i - 1].op
          /\ (log[h][i].ev = "call" /\ log[h][i].op = "authenticate")
             => Returned(h, i - 1, "reset_session")
          /\ (i > 1 /\ log[h][i].ev = "call" /\ log[h][i].op = "get_segment")
             => /\ Returned(h, i - 1, "authenticate")
                /\ Returned(h, i - 3, "reset_session")

\* Two requests inside their recovery cycles at the same time, one already
\* at its retry while the other is still authenticating.
C15_Witness ==
    \E h \in Handlers, g \in Handlers :
       /\ h # g
       /\ Expired1(h) /\ pc[h] = "get_segment_2"
       /\ Expired1(g) /\ pc[g] = "authenticate"

\* The returns of the client calls of the current request of h, in order.
Returns(h) == SelectSeq(log[h], LAMBDA e : e.ev = "ret")

\* The client gave the current requests of h and g the same results.
SameReturns(h, g) ==
    /\ Len(Returns(h)) = Len(Returns(g))
    /\ \A i \in 1..Len(Returns(h)) :
          /\ Returns(h)[i].op = Returns(g)[i].op
          /\ Returns(h)[i].val.kind = Returns(g)[i].val.kind
          /\ Returns(h)[i].val.kind = "Content"
             => Returns(h)[i].val.data = Returns(g)[i].val.data

\* C16: two requests for the same path that were given the same results by
\* the client are at the same point with the same client calls and the same
\* response, whatever was served before them and whatever the session is.
C16_NoRouterState ==
    \A h \in Handlers, g \in Handlers :
       ( /\ pc[h] # "idle" /\ pc[g] # "idle"
         /\ path[h] = path[g]
         /\ SameReturns(h, g) )
       => /\ pc[h] = pc[g]
          /\ log[h] = log[g]
          /\ responses[h] = responses[g]

\* Two requests for the same segment that both faulted in recovery, one of
\* them on a handler that had served an earlier request.
C16_Witness ==
    \E h \in Handlers, g \in Handlers :
       /\ h # g
       /\ path[h] = path[g]
       /\ Expired1(h) /\ pc[h] = "fault"
       /\ Expired1(g) /\ pc[g] = "fault"
       /\ SameReturns(h, g)
       /\ session # "initial"
       /\ served = 3

\* The part of the path left after stripping is empty: nothing stands
\* between the final "/" and the .m3u8 or .aac suffix.
EmptyStripped(p) ==
    \E suffix \in {SufM3u8, SufAac} :
       /\ EndsWith(p, suffix)
       /\ Len(p) > Len(suffix)
       /\ p[Len(p) - Len(suffix)] = "/"

\* C17: a Playlist or Segment request whose stripped path part is empty is
\* answered 404 and makes no client call.
C17_EmptyStripped404 ==
    \A h \in Handlers :
       (pc[h] # "idle" /\ EmptyStripped(path[h]))
       => /\ pc[h] = "done"
          /\ responses[h] = <<Response(404, "none", <<>>)>>
          /\ log[h] = <<>>

\* C18: each request that saw SegmentRetrievalException on its first
\* get_segment makes its own reset_session call and, once that has
\* returned, its own authenticate call, also while another request is
\* recovering: two such requests make two calls of each.
C18_RecoveryPerRequest ==
    /\ \A h \in Handlers :
          Expired1(h)
          => /\ NCalls(h, "reset_session") = 1
             /\ NCalls(h, "authenticate") =
                   (IF \E i \in 1..Len(log[h]) : Returned(h, i, "reset_session")
                    THEN 1 ELSE 0)
             /\ NCalls(h, "get_segment") = 2 => NCalls(h, "authenticate") = 1
    /\ \A h \in Handlers, g \in Handlers :
          ( /\ h # g
            /\ Expired1(h) /\ NCalls(h, "get_segment") = 2
            /\ Expired1(g) /\ NCalls(g, "get_segment") = 2 )
          => /\ NCalls(h, "reset_session") + NCalls(g, "reset_session") = 2
             /\ NCalls(h, "authenticate") + NCalls(g, "authenticate") = 2

\* The reset_session of g has returned after the authenticate of h returned
\* True and before the retry get_segment of h has returned: the session is
\* the freshly reset one while h's retry is under way.
C18_Witness ==
    \E h \in Handlers, g \in Handlers :
       /\ h # g
       /\ Expired1(h) /\ pc[h] = "get_segment_2"
       /\ Returned(h, 6, "authenticate") /\ log[h][6].val.data
       /\ Expired1(g) /\ pc[g] = "authenticate"
       /\ session = "reset"

\* C19: over all requests served so far, reset_session and authenticate were
\* each called at most as often as a first get_segment raised
\* SegmentRetrievalException; a request calls them only after its own first
\* get_segment raised, and requests of the other classes never do.
C19_RecoveryOnlyAfterExpiry ==
    /\ counts.reset_session <= counts.expired
    /\ counts.authenticate <= counts.expired
    /\ \A h \in Handlers :
          /\ (NCalls(h, "reset_session") > 0 \/ NCalls(h, "authenticate") > 0)
             => Expired1(h)
          /\ (pc[h] # "idle" /\ FirstMatch(path[h]) # "Segment")
             => /\ NCalls(h, "reset_session") = 0
                /\ NCalls(h, "authenticate") = 0

\* Two expiries so far, one of them with a failed reset_session, followed by
\* a request of another class.
C19_Witness ==
    \E h \in Handlers :
       /\ counts.expired = 2
       /\ counts.reset_session = 2
       /\ counts.authenticate = 1
       /\ pc[h] = "done"
       /\ FirstMatch(path[h]) # "Segment"

\* C20: once reset_session and authenticate have both returned, whatever
\* authenticate returned, the retry get_segment is made; it is not made when
\* either of them raised.
C20_ReturnValueIgnored ==
    \A h \in Handlers :
       /\ (\E i \in 1..Len(log[h]) : Returned(h, i, "authenticate"))
          => NCalls(h, "get_segment") = 2
       /\ (Terminal(h) /\ RecoveryFailed(h)) => NCalls(h, "get_segment") = 1
       /\ NCalls(h, "get_segment") = 2
          => /\ Returned(h, 4, "reset_session")
             /\ Returned(h, 6, "authenticate")

\* authenticate returned False and the retry still served the segment.
C20_Witness ==
    \E h \in Handlers :
       /\ pc[h] = "done"
       /\ Returned(h, 6, "authenticate")
       /\ ~log[h][6].val.data
       /\ NCalls(h, "get_segment") = 2
       /\ responses[h][1].status = 200

====
